---- MODULE Spec2Model ----
(***************************************************************************)
(* Model of DrugInteractionChecker (src/DrugInteractionChecker.py).        *)
(*                                                                         *)
(* A Python str is a sequence of one-character strings, so that lower(),   *)
(* strip(), the `in` substring test and the regular expression of          *)
(* _validate_drug_input are computed and not assumed.  A DataFrame is a    *)
(* record [columns, rows]: the header list and the rows, each row a        *)
(* sequence of cells aligned with the header list.                         *)
(***************************************************************************)
EXTENDS Integers, Sequences, FiniteSets, TLC

VARIABLES
    csv_file,    \* what pd.read_csv(self.filepath) yields: the dataset on disk
    pc,          \* "new" (before _load_data), "ready" (constructed), "failed" (raised)
    df,          \* self.df
    drug1_col,   \* self.drug1_col : a header, or None
    drug2_col,   \* self.drug2_col
    level_col,   \* self.level_col
    call,        \* the last query made: its name and its arguments
    result       \* the dict that query returned

vars == <<csv_file, pc, df, drug1_col, drug2_col, level_col, call, result>>

\* Python's None.  No str is equal to it: every str is a sequence of characters.
None == <<"None">>

----------------------------------------------------------------------------
\* str methods

UpperCase == <<"A","B","C","D","E","F","G","H","I","J","K","L","M",
               "N","O","P","Q","R","S","T","U","V","W","X","Y","Z">>
LowerCase == <<"a","b","c","d","e","f","g","h","i","j","k","l","m",
               "n","o","p","q","r","s","t","u","v","w","x","y","z">>
Whitespace == {" ", "\t", "\n", "\r"}
Digits == {"0","1","2","3","4","5","6","7","8","9"}

\* one character of str.lower()
lower_char(c) ==
    IF \E i \in 1..Len(UpperCase) : UpperCase[i] = c
    THEN LowerCase[CHOOSE i \in 1..Len(UpperCase) : UpperCase[i] = c]
    ELSE c

\* str.lower()
lower(s) == [i \in 1..Len(s) |-> lower_char(s[i])]

\* str.strip(): leading and trailing whitespace removed, the inside kept
strip(s) ==
    LET keep == {i \in 1..Len(s) : s[i] \notin Whitespace}
    IN  IF keep = {} THEN <<>>
        ELSE LET first == CHOOSE i \in keep : \A j \in keep : i <= j
                 last  == CHOOSE i \in keep : \A j \in keep : j <= i
             IN  SubSeq(s, first, last)

\* `sub in s` for two str
contains(s, sub) ==
    \E i \in 0..(Len(s) - Len(sub)) : SubSeq(s, i + 1, i + Len(sub)) = sub

\* re.match(r'^[\d.,\s]+$', s)
re_match_numeric(s) ==
    /\ Len(s) >= 1
    /\ \A i \in 1..Len(s) : s[i] \in Digits \cup {".", ","} \cup Whitespace

----------------------------------------------------------------------------
\* DataFrame access

\* position of column `col` in the frame (columns are unique in a DataFrame
\* read by pd.read_csv)
col_index(frame, col) ==
    CHOOSE j \in 1..Len(frame.columns) : frame.columns[j] = col

\* frame[col] : the column as a series
column(frame, col) ==
    [i \in 1..Len(frame.rows) |-> frame.rows[i][col_index(frame, col)]]

\* frame[col] = series
set_column(frame, col, series) ==
    [frame EXCEPT !.rows =
        [i \in 1..Len(frame.rows) |->
            [frame.rows[i] EXCEPT ![col_index(frame, col)] = series[i]]]]

\* the bug of forgetting .str.strip(): series.str.lower()
str_lower_only(series) == [i \in 1..Len(series) |-> lower(series[i])]

\* series.str.lower().str.strip()
str_lower_strip(series) == [i \in 1..Len(series) |-> strip(lower(series[i]))]

\* the bug of keeping one match only: frame[mask].head(1)
bool_index_first(rows, mask) ==
    IF \E i \in 1..Len(rows) : mask[i]
    THEN <<rows[CHOOSE i \in 1..Len(rows) :
                  mask[i] /\ \A j \in 1..Len(rows) : mask[j] => i <= j]>>
    ELSE <<>>

\* frame[mask] : the rows whose mask is True, in the frame's order
RECURSIVE bool_index(_, _)
bool_index(rows, mask) ==
    IF rows = <<>> THEN <<>>
    ELSE IF Head(mask)
         THEN <<Head(rows)>> \o bool_index(Tail(rows), Tail(mask))
         ELSE bool_index(Tail(rows), Tail(mask))

\* frame[[c1, c2, c3]].to_dict('records') over the selected rows
to_dict_records(frame, rows, c1, c2, c3) ==
    [i \in 1..Len(rows) |->
        [c \in {c1, c2, c3} |-> rows[i][col_index(frame, c)]]]

----------------------------------------------------------------------------
\* _load_data

\* the substrings the column detection looks for
DRUG     == <<"d", "r", "u", "g">>
LETTER_A == <<"a">>
LETTER_B == <<"b">>
LEVEL    == <<"l", "e", "v", "e", "l">>
SEVERITY == <<"s", "e", "v", "e", "r", "i", "t", "y">>

\* the positions self.df.columns[1], [3], [4] of the fallbacks (0-based)
DRUG_A_FALLBACK == 1
DRUG_B_FALLBACK == 3
LEVEL_FALLBACK  == 4

\* [col for col in columns if 'drug' in col.lower() and 'a' in col.lower()]
drug_a_candidates(columns) ==
    SelectSeq(columns, LAMBDA col :
        contains(lower(col), DRUG) /\ contains(lower(col), LETTER_A))

\* [col for col in columns if 'drug' in col.lower() and 'b' in col.lower()]
drug_b_candidates(columns) ==
    SelectSeq(columns, LAMBDA col :
        contains(lower(col), DRUG) /\ contains(lower(col), LETTER_B))

\* the bug of writing `and` for `or` in the level detection
level_candidates_and(columns) ==
    SelectSeq(columns, LAMBDA col :
        contains(lower(col), LEVEL) /\ contains(lower(col), SEVERITY))

\* [col for col in columns if 'level' in col.lower() or 'severity' in col.lower()]
level_candidates(columns) ==
    SelectSeq(columns, LAMBDA col :
        contains(lower(col), LEVEL) \/ contains(lower(col), SEVERITY))

\* candidates[0] if candidates else columns[k]; columns[k] raises IndexError
\* when the frame has no column k.  [raised, col]
first_or_fallback(candidates, columns, k) ==
    IF candidates # <<>> THEN [raised |-> FALSE, col |-> candidates[1]]
    ELSE IF k < Len(columns) THEN [raised |-> FALSE, col |-> columns[k + 1]]
    ELSE [raised |-> TRUE, col |-> None]

\* the two assignments that normalize the drug columns, in the code's order
normalize_columns(frame, c1, c2) ==
    LET f1 == set_column(frame, c1, str_lower_strip(column(frame, c1)))
    IN  set_column(f1, c2, str_lower_strip(column(f1, c2)))

\* The body of _load_data on the frame read from the file: the fields of self
\* when it returns or raises.  A statement that raises leaves the fields not
\* yet assigned at None.
load_data_fields(frame) ==
    LET a == first_or_fallback(drug_a_candidates(frame.columns), frame.columns,
                               DRUG_A_FALLBACK)
        b == first_or_fallback(drug_b_candidates(frame.columns), frame.columns,
                               DRUG_B_FALLBACK)
        l == first_or_fallback(level_candidates(frame.columns), frame.columns,
                               LEVEL_FALLBACK)
    IN  IF a.raised
        THEN [raised |-> TRUE, df |-> frame, drug1_col |-> None,
              drug2_col |-> None, level_col |-> None]
        ELSE IF b.raised
        THEN [raised |-> TRUE, df |-> frame, drug1_col |-> a.col,
              drug2_col |-> None, level_col |-> None]
        ELSE IF l.raised
        THEN [raised |-> TRUE, df |-> frame, drug1_col |-> a.col,
              drug2_col |-> b.col, level_col |-> None]
        ELSE [raised |-> FALSE, df |-> normalize_columns(frame, a.col, b.col),
              drug1_col |-> a.col, drug2_col |-> b.col, level_col |-> l.col]

\* __init__ calling _load_data: the object is usable only if nothing raised
load_data ==
    /\ pc = "new"
    /\ LET f == load_data_fields(csv_file)
       IN  /\ pc' = IF f.raised THEN "failed" ELSE "ready"
           /\ df' = f.df
           /\ drug1_col' = f.drug1_col
           /\ drug2_col' = f.drug2_col
           /\ level_col' = f.level_col
    /\ UNCHANGED <<csv_file, call, result>>

----------------------------------------------------------------------------
\* _validate_drug_input

MSG_EMPTY   == "Drug name cannot be empty"
MSG_NUMERIC == "Invalid input: Drug name cannot be purely numeric"

\* the bug of testing `not drug_name` alone, without .strip()
validate_drug_input_no_strip(drug_name) ==
    IF drug_name = None \/ drug_name = <<>>
    THEN <<FALSE, MSG_EMPTY>>
    ELSE IF re_match_numeric(strip(drug_name))
    THEN <<FALSE, MSG_NUMERIC>>
    ELSE <<TRUE, "None">>

\* (is_valid, error_msg); error_msg is the string None when valid
validate_drug_input(drug_name) ==
    IF drug_name = None \/ drug_name = <<>> \/ strip(drug_name) = <<>>
    THEN <<FALSE, MSG_EMPTY>>
    ELSE IF re_match_numeric(strip(drug_name))
    THEN <<FALSE, MSG_NUMERIC>>
    ELSE <<TRUE, "None">>

----------------------------------------------------------------------------
\* the queries; self is the record of the object's fields

\* the bug of searching one direction only, A-B
pair_mask_one_way(self, d1, d2) ==
    LET c1 == column(self.df, self.drug1_col)
        c2 == column(self.df, self.drug2_col)
    IN  [i \in 1..Len(self.df.rows) |-> c1[i] = d1 /\ c2[i] = d2]

\* the mask of check_interaction: both directions, A-B and B-A
pair_mask(self, d1, d2) ==
    LET c1 == column(self.df, self.drug1_col)
        c2 == column(self.df, self.drug2_col)
    IN  [i \in 1..Len(self.df.rows) |->
            \/ (c1[i] = d1 /\ c2[i] = d2)
            \/ (c1[i] = d2 /\ c2[i] = d1)]

\* the bug of searching the drug A column only
drug_mask_first_col(self, drug) ==
    LET c1 == column(self.df, self.drug1_col)
    IN  [i \in 1..Len(self.df.rows) |-> c1[i] = drug]

\* the mask of get_all_interactions_for_drug
drug_mask(self, drug) ==
    LET c1 == column(self.df, self.drug1_col)
        c2 == column(self.df, self.drug2_col)
    IN  [i \in 1..Len(self.df.rows) |-> c1[i] = drug \/ c2[i] = drug]

\* the bug of comparing the arguments as given, before normalizing them
check_interaction_raw_compare(self, drug1, drug2) ==
    LET v1 == validate_drug_input(drug1)
        v2 == validate_drug_input(drug2)
    IN  IF ~v1[1]
        THEN [status |-> "invalid_input", message |-> "Drug 1 - " \o v1[2],
              data |-> None]
        ELSE IF ~v2[1]
        THEN [status |-> "invalid_input", message |-> "Drug 2 - " \o v2[2],
              data |-> None]
        ELSE LET d1 == strip(lower(drug1))
                 d2 == strip(lower(drug2))
                 match == bool_index(self.df.rows, pair_mask(self, d1, d2))
             IN  IF drug1 = drug2
                 THEN [status |-> "error",
                       message |-> "Cannot check interaction of a drug with itself",
                       data |-> None]
                 ELSE IF match # <<>>
                 THEN [status |-> "found",
                       message |-> <<"Interaction found between ", drug1,
                                     " and ", drug2>>,
                       data |-> to_dict_records(self.df, match, self.drug1_col,
                                                self.drug2_col, self.level_col)]
                 ELSE [status |-> "not_found",
                       message |-> "No significant interaction found",
                       data |-> None]

\* the bug of testing for the same drug before validating
check_interaction_same_first(self, drug1, drug2) ==
    LET v1 == validate_drug_input(drug1)
        v2 == validate_drug_input(drug2)
        d1 == strip(lower(drug1))
        d2 == strip(lower(drug2))
        match == bool_index(self.df.rows, pair_mask(self, d1, d2))
    IN  IF d1 = d2
        THEN [status |-> "error",
              message |-> "Cannot check interaction of a drug with itself",
              data |-> None]
        ELSE IF ~v1[1]
        THEN [status |-> "invalid_input", message |-> "Drug 1 - " \o v1[2],
              data |-> None]
        ELSE IF ~v2[1]
        THEN [status |-> "invalid_input", message |-> "Drug 2 - " \o v2[2],
              data |-> None]
        ELSE IF match # <<>>
        THEN [status |-> "found",
              message |-> <<"Interaction found between ", drug1, " and ", drug2>>,
              data |-> to_dict_records(self.df, match, self.drug1_col,
                                       self.drug2_col, self.level_col)]
        ELSE [status |-> "not_found",
              message |-> "No significant interaction found",
              data |-> None]

\* check_interaction
check_interaction(self, drug1, drug2) ==
    LET v1 == validate_drug_input(drug1)
        v2 == validate_drug_input(drug2)
    IN  IF ~v1[1]
        THEN [status |-> "invalid_input", message |-> "Drug 1 - " \o v1[2],
              data |-> None]
        ELSE IF ~v2[1]
        THEN [status |-> "invalid_input", message |-> "Drug 2 - " \o v2[2],
              data |-> None]
        ELSE LET d1 == strip(lower(drug1))
                 d2 == strip(lower(drug2))
                 match == bool_index(self.df.rows, pair_mask(self, d1, d2))
             IN  IF d1 = d2
                 THEN [status |-> "error",
                       message |-> "Cannot check interaction of a drug with itself",
                       data |-> None]
                 ELSE IF match # <<>>
                 THEN [status |-> "found",
                       message |-> <<"Interaction found between ", drug1,
                                     " and ", drug2>>,
                       data |-> to_dict_records(self.df, match, self.drug1_col,
                                                self.drug2_col, self.level_col)]
                 ELSE [status |-> "not_found",
                       message |-> "No significant interaction found",
                       data |-> None]

\* get_all_interactions_for_drug
get_all_interactions_for_drug(self, drug_name) ==
    LET v == validate_drug_input(drug_name)
    IN  IF ~v[1]
        THEN [status |-> "invalid_input", message |-> v[2], data |-> None]
        ELSE LET drug == strip(lower(drug_name))
                 matches == bool_index(self.df.rows, drug_mask(self, drug))
             IN  IF matches # <<>>
                 THEN [status |-> "found",
                       message |-> <<"Found ", Len(matches),
                                     " interaction(s) for ", drug_name>>,
                       data |-> to_dict_records(self.df, matches, self.drug1_col,
                                                self.drug2_col, self.level_col)]
                 ELSE [status |-> "not_found",
                       message |-> <<"No interactions found for ", drug_name>>,
                       data |-> None]

\* the constructed object
Self == [df |-> df, drug1_col |-> drug1_col, drug2_col |-> drug2_col,
         level_col |-> level_col]

\* the bug of assigning the matches back: self.df = self.df[mask]
call_check_interaction_keeps_match(drug1, drug2) ==
    /\ pc = "ready"
    /\ call' = [op |-> "check_interaction", args |-> <<drug1, drug2>>]
    /\ result' = check_interaction(Self, drug1, drug2)
    /\ df' = IF result'.status = "found"
             THEN [df EXCEPT !.rows =
                      bool_index(df.rows,
                          pair_mask(Self, strip(lower(drug1)), strip(lower(drug2))))]
             ELSE df
    /\ UNCHANGED <<csv_file, pc, drug1_col, drug2_col, level_col>>

\* a caller invoking checker.check_interaction(drug1, drug2)
call_check_interaction(drug1, drug2) ==
    /\ pc = "ready"
    /\ call' = [op |-> "check_interaction", args |-> <<drug1, drug2>>]
    /\ result' = check_interaction(Self, drug1, drug2)
    /\ UNCHANGED <<csv_file, pc, df, drug1_col, drug2_col, level_col>>

\* a caller invoking checker.get_all_interactions_for_drug(drug_name)
call_get_all_interactions_for_drug(drug_name) ==
    /\ pc = "ready"
    /\ call' = [op |-> "get_all_interactions_for_drug", args |-> <<drug_name>>]
    /\ result' = get_all_interactions_for_drug(Self, drug_name)
    /\ UNCHANGED <<csv_file, pc, df, drug1_col, drug2_col, level_col>>

----------------------------------------------------------------------------
\* The datasets and the arguments the model runs the program on.

MaxRows     == 2   \* rows of a dataset that is queried
MaxLoadRows == 1   \* rows of a dataset that is only loaded
MaxNameLen  == 2   \* length of the generated drug names

\* all sequences over S of length at most n
SeqsUpTo(S, n) == UNION {[1..k -> S] : k \in 0..n}

\* headers
H_DrugA_name == <<"D", "r", "u", "g", "A", "_", "n", "a", "m", "e">>
H_DrugB_name == <<"D", "r", "u", "g", "B", "_", "n", "a", "m", "e">>
H_Drug1 == <<"D", "r", "u", "g", "1">>
H_Drug2 == <<"D", "r", "u", "g", "2">>
H_Drug_A == <<"D", "r", "u", "g", "_", "A">>
H_Drug_A_Level == <<"D", "r", "u", "g", "_", "A", "_", "L", "e", "v", "e", "l">>
H_Drug_B == <<"D", "r", "u", "g", "_", "B">>
H_Level == <<"L", "e", "v", "e", "l">>
H_Severity_Level == <<"S", "e", "v", "e", "r", "i", "t", "y", "_", "L", "e", "v", "e", "l">>
H_c0 == <<"c", "0">>
H_c1 == <<"c", "1">>
H_c2 == <<"c", "2">>
H_c3 == <<"c", "3">>
H_c4 == <<"c", "4">>
H_id == <<"i", "d">>
H_other == <<"o", "t", "h", "e", "r">>

\* the header list of the spec's example and one with no descriptive header
EXAMPLE_HEADERS == <<H_id, H_DrugA_name, H_other, H_DrugB_name, H_Severity_Level>>
PLAIN_HEADERS   == <<H_c0, H_c1, H_c2, H_c3, H_c4>>

\* a header list whose first header holds "drug", "b" and, in "name", "a":
\* both drug roles resolve to it
SHARED_HEADERS  == <<H_DrugB_name, H_Level>>

\* header lists a CSV file may carry: descriptive, positional, reordered,
\* with several candidates, with one header matching two roles, too short
HeaderLists ==
    { EXAMPLE_HEADERS, PLAIN_HEADERS,
      <<H_Drug_A, H_Drug_B, H_Level>>,
      <<H_Drug_B, H_Drug_A, H_Level>>,
      <<H_id, H_DrugB_name, H_other, H_DrugA_name, H_Severity_Level>>,
      <<H_Level, H_Drug_B, H_Drug_A, H_c0, H_c1>>,
      <<H_Drug_A_Level, H_Drug_B, H_c0, H_c1, H_c2>>,
      <<H_c0, H_c1, H_c2, H_c3, H_Drug_A>>,
      <<H_c0, H_c1>>,
      <<H_c0>>,
      <<H_Drug_A, H_Drug_B, H_c0, H_c1>>,
      <<H_c0, H_c1, H_c2, H_c3>>,
      <<H_Severity_Level, H_c1, H_c2, H_c3, H_c4>>,
      <<H_id, H_Drug_A, H_Drug_B, H_Level, H_Severity_Level>>,
      <<H_Drug_A, H_DrugA_name, H_Drug_B, H_DrugB_name, H_Level>>,
      <<H_c0, H_Level, H_c2, H_Severity_Level, H_c4>>,
      <<H_id, H_Drug1, H_c2, H_Drug2, H_Level>>,
      SHARED_HEADERS }

\* cell texts as read from the file
ASPIRIN_CELL  == <<"A", "s", "p", "i", "r", "i", "n">>
WARFARIN_CELL == <<" ", "W", "a", "r", "f", "a", "r", "i", "n", " ">>
MAJOR_CELL    == <<"M", "a", "j", "o", "r">>
MODERATE_CELL == <<"M", "o", "d", "e", "r", "a", "t", "e">>
VIT_C_CELL    == <<" ", "V", "i", "t", " ", "C", "\t">>
OTHER_CELL    == <<"x">>

\* datasets for the column detection and the normalization: any header list,
\* every cell one of two texts
LoadCells == {VIT_C_CELL, MAJOR_CELL}
LoadSources ==
    UNION { { [columns |-> h, rows |-> r] :
                r \in SeqsUpTo([1..Len(h) -> LoadCells], MaxLoadRows) } :
            h \in HeaderLists }

\* datasets for the queries: the layout of the spec's example (drug A, drug B
\* and level in columns 1, 3 and 4), a file whose two drug roles share one
\* column, and a file too narrow to load
QueryRecords == {ASPIRIN_CELL, WARFARIN_CELL} \X {ASPIRIN_CELL, WARFARIN_CELL}
                    \X {MAJOR_CELL, MODERATE_CELL}
row_of(rec) == <<OTHER_CELL, rec[1], OTHER_CELL, rec[2], rec[3]>>
SharedRecords == {ASPIRIN_CELL, WARFARIN_CELL} \X {MAJOR_CELL, MODERATE_CELL}
QuerySources ==
    { [columns |-> EXAMPLE_HEADERS,
       rows |-> [i \in DOMAIN recs |-> row_of(recs[i])]] :
        recs \in SeqsUpTo(QueryRecords, MaxRows) }
    \cup { [columns |-> SHARED_HEADERS, rows |-> recs] :
             recs \in SeqsUpTo(SharedRecords, MaxRows) }
    \cup { [columns |-> <<H_c0, H_c1>>, rows |-> <<>>] }

\* arguments of the queries
IN_EMPTY     == <<>>
IN_BLANK     == <<" ", " ", " ">>
IN_123       == <<"1", "2", "3">>
IN_LIST      == <<"1", ",", " ", "2", ".", "5">>
IN_DOT       == <<".">>
IN_Aspirin   == <<"A", "s", "p", "i", "r", "i", "n">>
IN_ASPIRIN   == <<"A", "S", "P", "I", "R", "I", "N", " ">>
IN_warfarin  == <<"w", "a", "r", "f", "a", "r", "i", "n">>
IN_Warfarin  == <<"\t", "W", "a", "r", "f", "a", "r", "i", "n">>
IN_Ibuprofen == <<"I", "b", "u", "p", "r", "o", "f", "e", "n">>
IN_5FU       == <<"5", "-", "F", "U">>
IN_Drug2     == <<"D", "r", "u", "g", "2">>

\* the arguments of check_interaction: absent, empty, numeric, two spellings
\* of one drug, a second drug, a drug of no row
PairInputs ==
    {None, IN_BLANK, IN_123, IN_Aspirin, IN_ASPIRIN, IN_Warfarin, IN_Ibuprofen}

\* the arguments of get_all_interactions_for_drug: the above, the spec's
\* validation examples, and every short text over NameChars
NameChars == {"a", "W", "7", ",", " "}
NameInputs ==
    PairInputs \cup {IN_EMPTY, IN_LIST, IN_DOT, IN_warfarin, IN_5FU, IN_Drug2}
        \cup SeqsUpTo(NameChars, MaxNameLen)

\* the arguments of the queries made one after the other
SeqInputs == {IN_123, IN_ASPIRIN, IN_Warfarin, IN_Ibuprofen}

----------------------------------------------------------------------------
\* The object before _load_data runs (__init__, lines 12-16), over a file.

InitOver(sources) ==
    /\ csv_file \in sources
    /\ pc = "new"
    /\ df = None
    /\ drug1_col = None
    /\ drug2_col = None
    /\ level_col = None
    /\ call = [op |-> "none", args |-> <<>>]
    /\ result = None

Init == InitOver(QuerySources)

\* construction, then one query, over the wide sets of arguments: a query is
\* a function of the table and its arguments
Next ==
    \/ load_data
    \/ \E drug1 \in PairInputs, drug2 \in PairInputs :
           call.op = "none" /\ call_check_interaction(drug1, drug2)
    \/ \E drug_name \in NameInputs :
           call.op = "none" /\ call_get_all_interactions_for_drug(drug_name)

Spec == Init /\ [][Next]_vars

\* construction, then any sequence of queries
NextSeq ==
    \/ load_data
    \/ \E drug1 \in SeqInputs, drug2 \in SeqInputs :
           call_check_interaction(drug1, drug2)
    \/ \E drug_name \in SeqInputs :
           call_get_all_interactions_for_drug(drug_name)

SpecSeq == Init /\ [][NextSeq]_vars

\* construction alone, over the wider set of files
InitLoad == InitOver(LoadSources)

NextLoad == load_data

SpecLoad == InitLoad /\ [][NextLoad]_vars

----------------------------------------------------------------------------
\* The vocabulary of the properties: the specification's terms, stated without
\* the operators that compute the results above.

\* the normalized form lower(trim(x)) of a text
lower_trim(x) == lower(strip(x))

\* the outcome of validateDrugName, from its definition in the specification
IsEmptyName(x)   == x = None \/ strip(x) = <<>>
IsNumericName(x) ==
    /\ ~IsEmptyName(x)
    /\ \A i \in 1..Len(strip(x)) :
           \/ strip(x)[i] \in Digits
           \/ strip(x)[i] \in {".", ","}
           \/ strip(x)[i] \in Whitespace
IsValidName(x)  == ~IsEmptyName(x) /\ ~IsNumericName(x)
ReasonOf(x)     == IF IsEmptyName(x) THEN MSG_EMPTY ELSE MSG_NUMERIC

\* a cell of a frame, by row number and header
cell(frame, i, col) == frame.rows[i][col_index(frame, col)]

\* the record (drugA, drugB, level) of a row of the loaded table
drugA(row) == row[col_index(df, drug1_col)]
drugB(row) == row[col_index(df, drug2_col)]
level(row) == row[col_index(df, level_col)]

\* `data` holds exactly the records of `rows`, in that order
IsRecordsOf(data, rows) ==
    /\ Len(data) = Len(rows)
    /\ \A i \in 1..Len(rows) :
           /\ DOMAIN data[i] = {drug1_col, drug2_col, level_col}
           /\ data[i][drug1_col] = drugA(rows[i])
           /\ data[i][drug2_col] = drugB(rows[i])
           /\ data[i][level_col] = level(rows[i])

\* the last query and its arguments
IsCheck  == pc = "ready" /\ call.op = "check_interaction"
IsGetAll == pc = "ready" /\ call.op = "get_all_interactions_for_drug"
Arg1 == call.args[1]
Arg2 == call.args[2]

\* the rows of the table that pair d1 with d2 in either order, in table order
PairRows(d1, d2) ==
    SelectSeq(df.rows, LAMBDA row :
        \/ (drugA(row) = d1 /\ drugB(row) = d2)
        \/ (drugA(row) = d2 /\ drugB(row) = d1))

\* the rows of the table that name d in either drug column, in table order
DrugRows(d) ==
    SelectSeq(df.rows, LAMBDA row : drugA(row) = d \/ drugB(row) = d)

----------------------------------------------------------------------------
\* C1: for valid arguments whose normalized forms d1, d2 differ,
\* check_interaction returns Found with exactly the rows that pair d1 and d2
\* in either order, in table order, when there is such a row, and NotFound
\* exactly when there is none; only the normalized forms decide the result.
C1_PairLookup ==
    (IsCheck /\ IsValidName(Arg1) /\ IsValidName(Arg2)
        /\ lower_trim(Arg1) # lower_trim(Arg2))
    => LET rows == PairRows(lower_trim(Arg1), lower_trim(Arg2))
       IN  IF rows # <<>>
           THEN result.status = "found" /\ IsRecordsOf(result.data, rows)
           ELSE result.status = "not_found" /\ result.data = None

\* two rows answer a query spelled otherwise than the table spells it
C1_Witness ==
    /\ IsCheck
    /\ Arg1 = IN_Warfarin /\ Arg2 = IN_ASPIRIN
    /\ result.status = "found"
    /\ Len(result.data) = 2
    /\ result.data[1] # result.data[2]

\* C2: check_interaction(a, b) and check_interaction(b, a) return the same
\* variant and, when Found, the same records.
C2_Symmetry ==
    IsCheck
    => LET swapped == check_interaction(Self, Arg2, Arg1)
       IN  /\ result.status = swapped.status
           /\ result.status = "found" => result.data = swapped.data

\* a pair found through a row that holds it in the other order
C2_Witness ==
    /\ IsCheck
    /\ result.status = "found"
    /\ \E i \in 1..Len(df.rows) :
           /\ drugA(df.rows[i]) = lower_trim(Arg2)
           /\ drugB(df.rows[i]) = lower_trim(Arg1)
    /\ \A i \in 1..Len(df.rows) :
           ~(drugA(df.rows[i]) = lower_trim(Arg1)
               /\ drugB(df.rows[i]) = lower_trim(Arg2))

\* C3: valid arguments with equal normalized forms yield SameDrugError with
\* no records, whatever the table holds.
C3_SameDrug ==
    (IsCheck /\ IsValidName(Arg1) /\ IsValidName(Arg2)
        /\ lower_trim(Arg1) = lower_trim(Arg2))
    => /\ result.status = "error"
       /\ result.message = "Cannot check interaction of a drug with itself"
       /\ result.data = None

\* two spellings of one drug, over a table with a row pairing it with itself
C3_Witness ==
    /\ IsCheck
    /\ Arg1 = IN_Aspirin /\ Arg2 = IN_ASPIRIN
    /\ result.status = "error"
    /\ \E i \in 1..Len(df.rows) :
           /\ drugA(df.rows[i]) = lower_trim(Arg1)
           /\ drugB(df.rows[i]) = lower_trim(Arg1)

\* C4: validation has exactly three outcomes, decided by the argument alone:
\* "empty" for an absent or blank argument, "purely numeric" for a non-blank
\* one of digits, dots, commas and whitespace only, valid otherwise.
C4_Validation ==
    /\ IsGetAll =>
          /\ IsEmptyName(Arg1) =>
                result.status = "invalid_input" /\ result.message = MSG_EMPTY
          /\ IsNumericName(Arg1) =>
                result.status = "invalid_input" /\ result.message = MSG_NUMERIC
          /\ IsValidName(Arg1) => result.status \in {"found", "not_found"}
    /\ IsCheck =>
          /\ IsEmptyName(Arg1) =>
                result.status = "invalid_input"
                    /\ result.message = "Drug 1 - " \o MSG_EMPTY
          /\ IsNumericName(Arg1) =>
                result.status = "invalid_input"
                    /\ result.message = "Drug 1 - " \o MSG_NUMERIC
          /\ (IsValidName(Arg1) /\ IsValidName(Arg2)) =>
                result.status # "invalid_input"

\* a blank argument, refused as empty
C4_Witness ==
    /\ IsGetAll
    /\ Arg1 = IN_BLANK
    /\ result.status = "invalid_input"
    /\ result.message = MSG_EMPTY

\* C8: get_all_interactions_for_drug returns Invalid with the bare reason for
\* an invalid argument; otherwise Found with exactly the rows naming the
\* normalized drug in either drug column, in table order, and NotFound exactly
\* when there is none.
C8_DrugLookup ==
    IsGetAll
    => IF ~IsValidName(Arg1)
       THEN /\ result.status = "invalid_input"
            /\ result.message = ReasonOf(Arg1)
            /\ result.data = None
       ELSE LET rows == DrugRows(lower_trim(Arg1))
            IN  IF rows # <<>>
                THEN result.status = "found" /\ IsRecordsOf(result.data, rows)
                ELSE result.status = "not_found" /\ result.data = None

\* a drug named in the drug B column of one row and in neither of another
C8_Witness ==
    /\ IsGetAll
    /\ Arg1 = IN_ASPIRIN
    /\ result.status = "found"
    /\ Len(result.data) = 1
    /\ Len(df.rows) = 2
    /\ drugA(df.rows[2]) # lower_trim(Arg1)
    /\ drugB(df.rows[2]) = lower_trim(Arg1)

\* C10: check_interaction validates drug1, then drug2, before anything else:
\* an invalid drug1 yields Invalid("Drug 1 - " + its reason) whatever drug2
\* is, a valid drug1 with an invalid drug2 yields Invalid("Drug 2 - " + its
\* reason), and no other result is returned unless both are valid.
C10_ValidationOrder ==
    IsCheck
    => /\ ~IsValidName(Arg1) =>
             /\ result.status = "invalid_input"
             /\ result.message = "Drug 1 - " \o ReasonOf(Arg1)
       /\ (IsValidName(Arg1) /\ ~IsValidName(Arg2)) =>
             /\ result.status = "invalid_input"
             /\ result.message = "Drug 2 - " \o ReasonOf(Arg2)
       /\ result.status # "invalid_input" =>
             IsValidName(Arg1) /\ IsValidName(Arg2)

\* two equal invalid arguments: Invalid for Drug 1, not SameDrugError
C10_Witness ==
    /\ IsCheck
    /\ Arg1 = IN_123 /\ Arg2 = IN_123
    /\ result.status = "invalid_input"
    /\ result.message = "Drug 1 - " \o MSG_NUMERIC

----------------------------------------------------------------------------
\* Properties of construction.

\* a header whose lowercased text contains the substring
Has(header, sub) == contains(lower(header), sub)
IsDrugAHeader(h) == Has(h, DRUG) /\ Has(h, LETTER_A)
IsDrugBHeader(h) == Has(h, DRUG) /\ Has(h, LETTER_B)
IsLevelHeader(h) == Has(h, LEVEL) \/ Has(h, SEVERITY)

\* the positions of the headers of each kind
DrugAPositions(headers) == {i \in 1..Len(headers) : IsDrugAHeader(headers[i])}
DrugBPositions(headers) == {i \in 1..Len(headers) : IsDrugBHeader(headers[i])}
LevelPositions(headers) == {i \in 1..Len(headers) : IsLevelHeader(headers[i])}

\* the header at the least of the positions, else the header at the 0-based
\* index k
FirstOrAt(headers, positions, k) ==
    IF positions # {}
    THEN headers[CHOOSE i \in positions : \A j \in positions : i <= j]
    ELSE headers[k + 1]

\* the header at a 0-based index
HeaderAt(headers, k) == headers[k + 1]

\* C5: after a successful load every value of the drug A and the drug B
\* column is the lowercased, trimmed form of the value in the file, and
\* normalizing it again changes nothing.
C5_DrugColumnsNormalized ==
    pc = "ready"
    => \A i \in 1..Len(df.rows) : \A col \in {drug1_col, drug2_col} :
           /\ cell(df, i, col) = lower_trim(cell(csv_file, i, col))
           /\ lower_trim(cell(df, i, col)) = cell(df, i, col)

\* a load that both lowercased and trimmed a drug name
C5_Witness ==
    /\ pc = "ready"
    /\ drug1_col # drug2_col
    /\ Len(df.rows) >= 1
    /\ cell(csv_file, 1, drug1_col) = VIT_C_CELL
    /\ cell(csv_file, 1, drug2_col) = VIT_C_CELL
    /\ cell(df, 1, drug2_col) = <<"v", "i", "t", " ", "c">>

\* C6: the roles are decided by the header list alone: drug A is the first
\* header containing "drug" and "a", else the header at index 1; drug B the
\* first containing "drug" and "b", else index 3; level the first containing
\* "level" or "severity", else index 4.  The example header list resolves to
\* indices 1, 3, 4, and so does any list of five or more headers with no
\* matching substring.
C6_ColumnRoles ==
    pc = "ready"
    => LET headers == csv_file.columns
       IN  /\ drug1_col = FirstOrAt(headers, DrugAPositions(headers), 1)
           /\ drug2_col = FirstOrAt(headers, DrugBPositions(headers), 3)
           /\ level_col = FirstOrAt(headers, LevelPositions(headers), 4)
           /\ (\/ headers = EXAMPLE_HEADERS
               \/ /\ Len(headers) >= 5
                  /\ DrugAPositions(headers) = {}
                  /\ DrugBPositions(headers) = {}
                  /\ LevelPositions(headers) = {})
              => /\ drug1_col = HeaderAt(headers, 1)
                 /\ drug2_col = HeaderAt(headers, 3)
                 /\ level_col = HeaderAt(headers, 4)

\* the example header list, loaded with a row
C6_Witness ==
    /\ pc = "ready"
    /\ csv_file.columns = EXAMPLE_HEADERS
    /\ Len(df.rows) = 1
    /\ drug1_col = H_DrugA_name
    /\ drug2_col = H_DrugB_name
    /\ level_col = H_Severity_Level

\* C7: after construction, no sequence of queries changes the rows of the
\* table or the three roles: they are what the load made them.
C7_QueriesKeepTable ==
    pc = "ready"
    => LET loaded == load_data_fields(csv_file)
       IN  /\ df = loaded.df
           /\ drug1_col = loaded.drug1_col
           /\ drug2_col = loaded.drug2_col
           /\ level_col = loaded.level_col

\* a query that found one of two rows
C7_Witness ==
    /\ IsCheck
    /\ result.status = "found"
    /\ Len(result.data) = 1
    /\ Len(df.rows) = 2

\* C9: after a successful load every value of the level column is the value
\* in the file: the load changes the two drug columns and no other.
C9_LevelVerbatim ==
    pc = "ready"
    => \A i \in 1..Len(df.rows) :
           /\ cell(df, i, level_col) = cell(csv_file, i, level_col)
           /\ \A j \in 1..Len(df.columns) :
                  df.columns[j] \notin {drug1_col, drug2_col}
                  => df.rows[i][j] = csv_file.rows[i][j]

====
